---- MODULE Spec2Model ----
(***************************************************************************)
(* The incremental, checkpointed enrichment pipeline of users-also-buy:    *)
(* main.py (the driver), MarketplacerGateway.fetch_products (the           *)
(* generator that pages the catalog), the annotation fan-out under an      *)
(* asyncio.Semaphore, the write-back of every record and the checkpoint    *)
(* blob of AzureBlobClient.                                                *)
(*                                                                         *)
(* Time is counted in ticks of half a second, so that two records can be   *)
(* created at the same instant (a tie), half a second apart, or a full     *)
(* second apart.  A datetime is the number of ticks since 2023-01-01.      *)
(***************************************************************************)
EXTENDS Integers, Sequences, FiniteSets, TLC

\* ------------------------------------------------------------------ bounds
\* How many ticks the clock advances while the pipeline is observed.
MaxTicks == 1
\* Largest number of records an initial catalog of Init holds.
MaxInitRecords == 3
\* Largest distance in ticks between two consecutive records of an initial catalog.
MaxGap == 2
\* Largest number of malformed nodes (no title, no category) in the catalog.
MaxMalformed == 1
\* Largest number of records created upstream while the pipeline is observed.
MaxAdded == 1
\* Number of pipeline runs (process starts) that are observed.
MaxRuns == 2
\* Largest batch handed to the dispatcher in SpecEnrich.
MaxBatch == 6
\* Largest number of pages of a page chain in SpecPaginate.
MaxPages == 3
\* Largest item limit fetch_products is called with in SpecPaginate.
MaxLimit == 5

\* ------------------------------------------------------- program constants
\* MarketplacerGateway(page_size=2)
PageSize == 2
\* fetch_products(..., limit=5)
ItemLimit == 5
\* asyncio.Semaphore(5)
Permits == 5
\* datetime.datetime(2023, 1, 1), in ticks
Epoch == 0
\* timedelta(seconds=1), in ticks
OneSecond == 2

\* cursor = None (no string is a cursor); an endCursor that is missing or empty
NoCursor == 0
\* Python's None where a string is expected (no string has this shape)
None == <<"None">>

VARIABLES
    now,          \* the wall clock, in ticks
    catalog,      \* upstream golden products, in creation order: a sequence of nodes
    upstream,     \* per catalog position: the attribute sets written by update calls
    blob,         \* the "product_status" blob: <<>> (no blob) or <<PipelineBlobStatus>>
    runs,         \* how many runs (processes) have been started
    pc,           \* where main() stands
    trigger,      \* pipeline_trigger_datetime
    minStart,     \* min_start_date
    maxDate,      \* the max_date handed to fetch_products
    gen,          \* the generator fetch_products: its position
    cursor,       \* fetch_products: cursor
    remaining,    \* fetch_products: remaining
    pageInfo,     \* fetch_products: page_info of the last payload
    batch,        \* batch_products
    task,         \* per position of the batch: the state of its annotation task
    permits,      \* the semaphore's value
    taskResult,   \* per position of the batch: what its task returned
    doneOrder,    \* positions of the batch in the order their tasks returned
    batchResults, \* batch_results
    wbIdx,        \* position in batch_results of the next update call
    limit,        \* fetch_products: the limit it was called with, None or <<n>>
    source,       \* the page chain of a source given page by page (SpecPaginate)
    hist          \* what the runs did (observation only)

vars == <<now, catalog, upstream, blob, runs, pc, trigger, minStart, maxDate, gen,
          cursor, remaining, pageInfo, batch, task, permits, taskResult, doneOrder,
          batchResults, wbIdx, limit, source, hist>>

envVars == <<now, catalog>>
genVars == <<gen, cursor, remaining, pageInfo>>
taskVars == <<task, permits, taskResult, doneOrder>>
callVars == <<limit, source>>

Min(a, b) == IF a <= b THEN a ELSE b
Last(s) == s[Len(s)]
Range(s) == {s[i] : i \in DOMAIN s}

\* ------------------------------------------------------------------ strings
\* A string is a sequence of one-character strings.
Blank == {" "}

IsPrefixAt(s, sep, i) == i + Len(sep) - 1 <= Len(s) /\ SubSeq(s, i, i + Len(sep) - 1) = sep

\* sep in tree_name
Contains(s, sep) == \E i \in 1..Len(s) : IsPrefixAt(s, sep, i)

FirstAt(s, sep) == CHOOSE i \in 1..Len(s) : IsPrefixAt(s, sep, i) /\ \A j \in 1..(i - 1) : ~IsPrefixAt(s, sep, j)

\* str.split(sep)
RECURSIVE Split(_, _)
Split(s, sep) ==
    IF ~Contains(s, sep) THEN <<s>>
    ELSE <<SubSeq(s, 1, FirstAt(s, sep) - 1)>>
         \o Split(SubSeq(s, FirstAt(s, sep) + Len(sep), Len(s)), sep)

\* str.strip()
RECURSIVE Strip(_)
Strip(s) ==
    IF s = <<>> THEN s
    ELSE IF Head(s) \in Blank THEN Strip(Tail(s))
    ELSE IF Last(s) \in Blank THEN Strip(SubSeq(s, 1, Len(s) - 1))
    ELSE s

RECURSIVE StripNonEmpty(_)
StripNonEmpty(parts) ==
    IF parts = <<>> THEN <<>>
    ELSE (IF Strip(Head(parts)) # <<>> THEN <<Strip(Head(parts))>> ELSE <<>>)
         \o StripNonEmpty(Tail(parts))

Separators == << <<" ", ">", " ">>, <<" ", "/", " ">>, <<"/">>, <<">">> >>

RECURSIVE SepParts(_, _)
SepParts(treeName, seps) ==
    IF seps = <<>> THEN <<>>
    ELSE IF Contains(treeName, Head(seps)) THEN StripNonEmpty(Split(treeName, Head(seps)))
    ELSE SepParts(treeName, Tail(seps))

PadNone(parts) == [i \in 1..4 |-> IF i <= Len(parts) THEN parts[i] ELSE None]

\* MarketplacerGateway._split_categories
SplitCategories(treeName) ==
    IF treeName = <<>> THEN <<None, None, None, None>>
    ELSE LET found == SepParts(treeName, Separators)
             parts == IF found = <<>>
                      THEN (IF Strip(treeName) # <<>> THEN <<Strip(treeName)>> ELSE <<>>)
                      ELSE found
         IN PadNone(SubSeq(parts, 1, Min(4, Len(parts))))

\* ------------------------------------------------------- nodes and products
TreeAB == <<"A", " ", ">", " ", "B">>

\* The shapes of an upstream node: well formed, without a title, without a taxon tree name.
GoodShape == [title |-> <<"t">>, treeName |-> TreeAB]
NoTitleShape == [title |-> None, treeName |-> TreeAB]
NoCategoryShape == [title |-> <<"t">>, treeName |-> <<>>]
Shapes == {GoodShape, NoTitleShape, NoCategoryShape}

\* A golden product upstream: its creation time, title, taxon tree name and the
\* option values it holds.
MakeEntry(k, shape) ==
    [createdAt |-> k, title |-> shape.title, treeName |-> shape.treeName,
     optionValues |-> <<>>]

\* The node the goldenProducts query returns for catalog position i.
Node(i) ==
    [id |-> i,
     createdAt |-> catalog[i].createdAt,
     title |-> catalog[i].title,
     description |-> <<"d">>,
     brand |-> [id |-> "brand-id", name |-> "brand"],
     taxon |-> [id |-> "taxon-id", treeName |-> catalog[i].treeName],
     optionValues |-> [nodes |-> catalog[i].optionValues]]

\* The fields class Product declares; pydantic drops every other keyword argument.
ProductFields ==
    {"id", "created_date", "category_lvl_1", "category_lvl_2", "category_lvl_3",
     "category_lvl_4", "brand", "title", "description"}

\* Product(**kwargs)
Product(kwargs) == [f \in (DOMAIN kwargs) \cap ProductFields |-> kwargs[f]]

\* _map_product raises ValueError for a node without category or title.
MapRaises(node) == SplitCategories(node.taxon.treeName)[1] = None \/ node.title = None

\* The keyword arguments _map_product hands to Product(...), for a node it does not
\* raise on.
MapKwargs(node) ==
    LET categories == SplitCategories(node.taxon.treeName)
    IN [id |-> node.id,
        created_date |-> node.createdAt,
        category_lvl_1 |-> categories[1],
        category_lvl_2 |-> categories[2],
        category_lvl_3 |-> categories[3],
        category_lvl_4 |-> categories[4],
        brand |-> node.brand.name,
        brand_id |-> node.brand.id,
        taxon_id |-> node.taxon.id,
        title |-> node.title,
        description |-> node.description,
        option_values |-> node.optionValues.nodes]

\* MarketplacerGateway._map_product, for a node it does not raise on
MapProduct(node) == Product(MapKwargs(node))

\* mapped = [self._map_product(node) for node in nodes]
MapAll(nodes) == [i \in 1..Len(nodes) |-> MapProduct(nodes[i])]

\* ------------------------------------------------------- the catalog source
\* Positions of the catalog inside the creation-time filter [since, until).
InWindow(i, since, until) == since <= catalog[i].createdAt /\ catalog[i].createdAt < until

\* Positions after the cursor that the filter admits, in ascending order.
Eligible(after, since, until) == {i \in (after + 1)..Len(catalog) : InWindow(i, since, until)}

RECURSIVE TakeAsc(_, _)
TakeAsc(S, n) ==
    IF n <= 0 \/ S = {} THEN <<>>
    ELSE LET m == CHOOSE x \in S : \A y \in S : x <= y
         IN <<m>> \o TakeAsc(S \ {m}, n - 1)

\* The goldenProducts payload: first nodes after the cursor, sorted by CREATED_AT ascending.
Payload(after, first, since, until) ==
    LET elig == Eligible(after, since, until)
        page == TakeAsc(elig, first)
    IN [nodes |-> [j \in 1..Len(page) |-> Node(page[j])],
        pageInfo |-> [hasNextPage |-> Cardinality(elig) > Len(page),
                      endCursor |-> IF page = <<>> THEN NoCursor ELSE Last(page)]]


\* ------------------------------------------------------------ initial states
\* The clock when the observation starts: no initial record is younger.
StartTime == Epoch + (MaxInitRecords - 1) * MaxGap + 1

\* Creation times of n records: the first at the epoch, each next one 0..MaxGap ticks later.
KeySeqs(n) ==
    {k \in [1..n -> Epoch..(StartTime - 1)] :
        /\ n > 0 => k[1] = Epoch
        /\ \A i \in 1..(n - 1) : k[i] <= k[i + 1] /\ k[i + 1] - k[i] <= MaxGap}

Malformed(c) == {i \in DOMAIN c : c[i].title = None \/ c[i].treeName = <<>>}

InitCatalogs ==
    UNION {{[i \in 1..n |-> MakeEntry(k[i], sh[i])] : k \in KeySeqs(n), sh \in [1..n -> Shapes]}
           : n \in 0..MaxInitRecords}

\* Seven well-formed records one second apart: t1..t7.
Scenario7 == [i \in 1..7 |-> MakeEntry(i * OneSecond, GoodShape)]

NoHist == [ckptAtStart |-> <<>>, window |-> <<>>, fetched |-> <<>>, written |-> <<>>,
           firstSizes |-> <<>>, failedIn |-> "none", error |-> "none", failedBatch |-> <<>>,
           leftBehind |-> 0, stop |-> "none", saveTries |-> <<>>, updateTries |-> <<>>]

InitRest ==
    /\ upstream = [i \in 1..Len(catalog) |-> <<>>]
    /\ blob = <<>>
    /\ runs = 0
    /\ pc = "idle"
    /\ trigger = 0
    /\ minStart = 0
    /\ maxDate = 0
    /\ gen = "none"
    /\ cursor = NoCursor
    /\ remaining = 0
    /\ pageInfo = [hasNextPage |-> FALSE, endCursor |-> NoCursor]
    /\ batch = <<>>
    /\ task = <<>>
    /\ permits = Permits
    /\ taskResult = <<>>
    /\ doneOrder = <<>>
    /\ batchResults = <<>>
    /\ wbIdx = 0
    /\ limit = <<ItemLimit>>
    /\ source = <<>>
    /\ hist = [cur |-> NoHist, ended |-> <<>>, saves |-> <<>>, added |-> 0]

InitSmall ==
    /\ catalog \in {c \in InitCatalogs : Cardinality(Malformed(c)) <= MaxMalformed}
    /\ now = StartTime
    /\ InitRest

InitScenario ==
    /\ catalog = Scenario7
    /\ now = 7 * OneSecond + 1
    /\ InitRest

Init == InitSmall \/ InitScenario

\* -------------------------------------------------------------- environment
\* Time passes.
Tick ==
    /\ now < StartTime + MaxTicks
    /\ now' = now + 1
    /\ UNCHANGED <<catalog, upstream, blob, runs, pc, trigger, minStart, maxDate, genVars,
                   batch, taskVars, batchResults, wbIdx, hist>>
    /\ UNCHANGED callVars

\* A golden product is created upstream, stamped with the current time.
AddRecord ==
    /\ hist.added < MaxAdded
    /\ \E shape \in Shapes :
         /\ Cardinality(Malformed(Append(catalog, MakeEntry(now, shape)))) <= MaxMalformed
         /\ catalog' = Append(catalog, MakeEntry(now, shape))
    /\ upstream' = Append(upstream, <<>>)
    /\ hist' = [hist EXCEPT !.added = @ + 1]
    /\ UNCHANGED <<now, blob, runs, pc, trigger, minStart, maxDate, genVars, batch,
                   taskVars, batchResults, wbIdx>>
    /\ UNCHANGED callVars


\* ------------------------------------------------------------------ history
Ids(products) == [i \in 1..Len(products) |-> products[i].id]

\* The run ends (main returns or raises): its record is closed.
CloseRun(h, outcome, blobAfter) ==
    [h EXCEPT !.ended = Append(@, [ckptAtStart |-> h.cur.ckptAtStart,
                                   ckptAtEnd |-> blobAfter,
                                   window |-> h.cur.window,
                                   fetched |-> h.cur.fetched,
                                   written |-> h.cur.written,
                                   firstSizes |-> h.cur.firstSizes,
                                   failedIn |-> h.cur.failedIn,
                                   error |-> h.cur.error,
                                   failedBatch |-> h.cur.failedBatch,
                                   leftBehind |-> h.cur.leftBehind,
                                   stop |-> h.cur.stop,
                                   catalogLen |-> Len(catalog),
                                   outcome |-> outcome])]

\* main() raises in step `where` with `error`, while working on the records failedBatch.
Fail(h, where, error, failedBatch) ==
    CloseRun([h EXCEPT !.cur.failedIn = where, !.cur.error = error,
                       !.cur.failedBatch = failedBatch], "failed", blob)

\* ------------------------------------------------------------------- main()
\* As MinStartDate, from the trigger time the checkpoint stores.
MinStartDateFromTrigger(status) ==
    IF status = <<>> THEN Epoch
    ELSE status[1].latest_datetime_trigger + OneSecond

\* As MinStartDate, without the second added to the stored watermark.
MinStartDateInclusive(status) ==
    IF status = <<>> THEN Epoch
    ELSE status[1].latest_product_datetime_updated

\* As MinStartDate, with the stored checkpoint ignored.
MinStartDateFromEpoch(status) == Epoch

\* min_start_date, from what read_json returned
MinStartDate(status) ==
    IF status = <<>> THEN Epoch
    ELSE status[1].latest_product_datetime_updated + OneSecond

\* What a blob can hold that read_json does not make a status of: something that is
\* not bytes, bytes that are not JSON, JSON that is not a PipelineBlobStatus.
NoData == [data |-> None]
NotJson == [data |-> <<"x">>]
NotAStatus == [data |-> <<"{", "}">>]
Unreadable == {NoData, NotJson, NotAStatus}

\* As ReadJson, with a blob that cannot be read taken for a missing one.
ReadJsonLenient(b) ==
    IF b # <<>> /\ b[1] \in Unreadable
    THEN [raised |-> FALSE, error |-> "none", status |-> <<>>]
    ELSE [raised |-> FALSE, error |-> "none", status |-> b]

\* AzureBlobClient.read_json: None (<<>>) for a blob that does not exist, an exception
\* for one that holds no bytes, no JSON or no status, the status otherwise.
ReadJson(b) ==
    IF b = <<>> THEN [raised |-> FALSE, error |-> "none", status |-> <<>>]
    ELSE IF b[1] = NoData THEN [raised |-> TRUE, error |-> "ValueError", status |-> <<>>]
    ELSE IF b[1] = NotJson THEN [raised |-> TRUE, error |-> "JSONDecodeError", status |-> <<>>]
    ELSE IF b[1] = NotAStatus THEN [raised |-> TRUE, error |-> "ValidationError", status |-> <<>>]
    ELSE [raised |-> FALSE, error |-> "none", status |-> b]

\* main(), up to the semaphore: the trigger time, the checkpoint, the start bound.
StartRun ==
    /\ pc \in {"idle", "done", "failed"}
    /\ runs < MaxRuns
    /\ ~ReadJson(blob).raised
    /\ runs' = runs + 1
    /\ trigger' = now
    /\ minStart' = MinStartDate(ReadJson(blob).status)
    /\ permits' = Permits
    /\ pc' = "fetch"
    /\ maxDate' = 0
    /\ gen' = "none"
    /\ cursor' = NoCursor
    /\ remaining' = 0
    /\ pageInfo' = [hasNextPage |-> FALSE, endCursor |-> NoCursor]
    /\ batch' = <<>>
    /\ task' = <<>>
    /\ taskResult' = <<>>
    /\ doneOrder' = <<>>
    /\ batchResults' = <<>>
    /\ wbIdx' = 0
    /\ hist' = [hist EXCEPT !.cur = [NoHist EXCEPT !.ckptAtStart = blob]]
    /\ UNCHANGED <<now, catalog, upstream, blob>>
    /\ UNCHANGED callVars

\* main(), up to read_json, which raises: main() raises before min_start_date is set.
LoadFails ==
    /\ pc \in {"idle", "done", "failed"}
    /\ runs < MaxRuns
    /\ ReadJson(blob).raised
    /\ runs' = runs + 1
    /\ trigger' = now
    /\ pc' = "failed"
    /\ minStart' = 0
    /\ permits' = Permits
    /\ maxDate' = 0
    /\ gen' = "none"
    /\ cursor' = NoCursor
    /\ remaining' = 0
    /\ pageInfo' = [hasNextPage |-> FALSE, endCursor |-> NoCursor]
    /\ batch' = <<>>
    /\ task' = <<>>
    /\ taskResult' = <<>>
    /\ doneOrder' = <<>>
    /\ batchResults' = <<>>
    /\ wbIdx' = 0
    /\ hist' = Fail([hist EXCEPT !.cur = [NoHist EXCEPT !.ckptAtStart = blob]],
                    "load", ReadJson(blob).error, <<>>)
    /\ UNCHANGED <<now, catalog, upstream, blob>>
    /\ UNCHANGED callVars

\* fetch_products(min_start_date, now(), limit=5): the generator is created.
BeginFetch ==
    /\ pc = "fetch"
    /\ maxDate' = now
    /\ cursor' = NoCursor
    /\ remaining' = ItemLimit
    /\ IF ItemLimit <= 0
       THEN /\ gen' = "ended"
            /\ pc' = "done"
            /\ hist' = CloseRun([hist EXCEPT !.cur.window = <<minStart, now>>,
                                              !.cur.stop = "limit"], "done", blob)
       ELSE /\ gen' = "request"
            /\ pc' = "next"
            /\ hist' = [hist EXCEPT !.cur.window = <<minStart, now>>]
    /\ UNCHANGED <<now, catalog, upstream, blob, runs, trigger, minStart, pageInfo, batch,
                   taskVars, batchResults, wbIdx>>
    /\ UNCHANGED callVars

\* fetch_products after the limit check: hasNextPage, endCursor.
AfterLimitCheck(rem, pinfo) ==
    IF ~pinfo.hasNextPage
    THEN [gen |-> "ended", cursor |-> cursor, remaining |-> rem, stop |-> "nomore"]
    ELSE IF pinfo.endCursor = NoCursor
    THEN [gen |-> "ended", cursor |-> NoCursor, remaining |-> rem, stop |-> "nocursor"]
    ELSE [gen |-> "request", cursor |-> pinfo.endCursor, remaining |-> rem, stop |-> "none"]

\* fetch_products after a page, called with a limit: remaining, hasNextPage, endCursor.
GenAfterPage(rem, nMapped, pinfo) ==
    IF rem - nMapped <= 0
    THEN [gen |-> "ended", cursor |-> cursor, remaining |-> rem - nMapped, stop |-> "limit"]
    ELSE AfterLimitCheck(rem - nMapped, pinfo)

\* current_batch_size
CurrentBatchSize(rem) == Min(PageSize, rem)

\* As Yields, with a page that mapped nothing yielded as well.
YieldsAlways(mapped) == TRUE

\* if mapped: yield mapped
Yields(mapped) == mapped # <<>>

\* One round trip of fetch_products: the request, the mapping, the yield.
RunQuery ==
    /\ pc = "next"
    /\ gen = "request"
    /\ LET first == CurrentBatchSize(remaining)
           payload == Payload(cursor, first, minStart, maxDate)
           nodes == payload.nodes
       IN \/ \* the request raises
             /\ pc' = "failed"
             /\ hist' = Fail([hist EXCEPT !.cur.firstSizes = Append(@, first)], "fetch",
                             "TransportError", [i \in 1..Len(nodes) |-> nodes[i].id])
             /\ UNCHANGED <<genVars, batch, task, taskResult, doneOrder>>
          \/ \* _map_product raises out of the generator
             /\ \E i \in 1..Len(nodes) : MapRaises(nodes[i])
             /\ pc' = "failed"
             /\ hist' = Fail([hist EXCEPT !.cur.firstSizes = Append(@, first)], "fetch",
                             "ValueError", [i \in 1..Len(nodes) |-> nodes[i].id])
             /\ UNCHANGED <<genVars, batch, task, taskResult, doneOrder>>
          \/ \* a batch is yielded; gather makes one task per product
             /\ \A i \in 1..Len(nodes) : ~MapRaises(nodes[i])
             /\ Yields(MapAll(nodes))
             /\ batch' = MapAll(nodes)
             /\ pageInfo' = payload.pageInfo
             /\ gen' = "yielded"
             /\ pc' = "gather"
             /\ task' = [i \in 1..Len(nodes) |-> "waiting"]
             /\ taskResult' = [i \in 1..Len(nodes) |-> <<>>]
             /\ doneOrder' = <<>>
             /\ hist' = [hist EXCEPT !.cur.firstSizes = Append(@, first),
                                     !.cur.fetched = Append(@, Ids(MapAll(nodes)))]
             /\ UNCHANGED <<cursor, remaining>>
          \/ \* nothing mapped: no yield, the loop goes on or ends
             /\ nodes = <<>>
             /\ ~Yields(MapAll(nodes))
             /\ LET g == GenAfterPage(remaining, 0, payload.pageInfo)
                IN /\ gen' = g.gen
                   /\ cursor' = g.cursor
                   /\ remaining' = g.remaining
                   /\ pageInfo' = payload.pageInfo
                   /\ IF g.gen = "ended"
                      THEN /\ pc' = "done"
                           /\ hist' = CloseRun([hist EXCEPT !.cur.firstSizes = Append(@, first),
                                                             !.cur.stop = g.stop],
                                               "done", blob)
                      ELSE /\ pc' = "next"
                           /\ hist' = [hist EXCEPT !.cur.firstSizes = Append(@, first)]
             /\ UNCHANGED <<batch, task, taskResult, doneOrder>>
    /\ UNCHANGED <<now, catalog, upstream, blob, runs, trigger, minStart, maxDate, permits,
                   batchResults, wbIdx>>
    /\ UNCHANGED callVars


\* ------------------------------------------------- the annotation fan-out
\* What agent.run returns for a product: the queries, tagged with the product they are for.
Annotate(product) == <<"q", product.id>>

Waiting == {i \in DOMAIN task : task[i] = "waiting"}
Running == {i \in DOMAIN task : task[i] = "running"}
Raised == {i \in DOMAIN task : task[i] = "raised"}

\* As CanAcquire, with the semaphore's value not looked at.
CanAcquireAlways(value) == TRUE

\* Semaphore.acquire goes through without waiting
CanAcquire(value) == value > 0

\* async with semaphore: the task at the head of the waiters takes a permit and
\* sends its agent.run request.
TaskAcquire(i) ==
    /\ pc = "gather"
    /\ task[i] = "waiting"
    /\ \A j \in Waiting : i <= j
    /\ CanAcquire(permits)
    /\ task' = [task EXCEPT ![i] = "running"]
    /\ permits' = permits - 1
    /\ UNCHANGED <<now, catalog, upstream, blob, runs, pc, trigger, minStart, maxDate,
                   genVars, batch, taskResult, doneOrder, batchResults, wbIdx, hist>>
    /\ UNCHANGED callVars

\* agent.run returns: the permit is released, the task returns (product, queries).
TaskReturn(i) ==
    /\ pc = "gather"
    /\ task[i] = "running"
    /\ task' = [task EXCEPT ![i] = "done"]
    /\ permits' = permits + 1
    /\ taskResult' = [taskResult EXCEPT ![i] = <<batch[i], Annotate(batch[i])>>]
    /\ doneOrder' = Append(doneOrder, i)
    /\ UNCHANGED <<now, catalog, upstream, blob, runs, pc, trigger, minStart, maxDate,
                   genVars, batch, batchResults, wbIdx, hist>>
    /\ UNCHANGED callVars

\* As TaskRaise, with the permit kept by the task that raised.
TaskRaiseKeepsPermit(i) ==
    /\ pc = "gather"
    /\ task[i] = "running"
    /\ task' = [task EXCEPT ![i] = "raised"]
    /\ UNCHANGED <<now, catalog, upstream, blob, runs, pc, trigger, minStart, maxDate,
                   genVars, batch, taskResult, doneOrder, batchResults, wbIdx, hist,
                   permits>>
    /\ UNCHANGED callVars

\* agent.run raises (an error, or output that does not validate): the permit is
\* released and the exception leaves the task.
TaskRaise(i) ==
    /\ pc = "gather"
    /\ task[i] = "running"
    /\ task' = [task EXCEPT ![i] = "raised"]
    /\ permits' = permits + 1
    /\ UNCHANGED <<now, catalog, upstream, blob, runs, pc, trigger, minStart, maxDate,
                   genVars, batch, taskResult, doneOrder, batchResults, wbIdx, hist>>
    /\ UNCHANGED callVars

\* As GatherResults, with the results in the order the tasks finished.
GatherResultsAsCompleted(results, order) == [k \in 1..Len(order) |-> results[order[k]]]

\* As GatherResults, with the results in the reverse order of the arguments.
GatherResultsReversed(results, order) ==
    [k \in 1..Len(results) |-> results[Len(results) + 1 - k]]

\* What gather returns: the tasks' results in the order of its arguments.
GatherResults(results, order) == results

\* await asyncio.gather(...) returns: every task has returned.
GatherReturn ==
    /\ pc = "gather"
    /\ \A i \in DOMAIN task : task[i] = "done"
    /\ batchResults' = GatherResults(taskResult, doneOrder)
    /\ wbIdx' = 1
    /\ pc' = "writeback"
    /\ UNCHANGED <<now, catalog, upstream, blob, runs, trigger, minStart, maxDate, genVars,
                   batch, taskVars, hist>>
    /\ UNCHANGED callVars

\* await asyncio.gather(...) raises the first exception of a task; main() raises, and
\* asyncio.run cancels the tasks that are left (a running one releases its permit).
GatherRaise ==
    /\ pc = "gather"
    /\ Raised # {}
    /\ pc' = "failed"
    /\ task' = [i \in DOMAIN task |->
                  IF task[i] \in {"waiting", "running"} THEN "cancelled" ELSE task[i]]
    /\ permits' = permits + Cardinality(Running)
    /\ hist' = Fail([hist EXCEPT !.cur.leftBehind = Cardinality(Waiting \cup Running)],
                    "enrich", "AnnotationError", Ids(batch))
    /\ UNCHANGED <<now, catalog, upstream, blob, runs, trigger, minStart, maxDate, genVars,
                   batch, taskResult, doneOrder, batchResults, wbIdx>>
    /\ UNCHANGED callVars

\* ---------------------------------------------------------------- write-back
\* The attributes update_product_with_complementary_queries reads from the product.
UpdateReads == {"title", "description", "brand_id", "taxon_id", "option_values", "id"}

\* How update_product_with_complementary_queries can end for a product.
UpdateOutcomes(product) ==
    IF UpdateReads \subseteq DOMAIN product
    THEN {"returned", "TransportError"}
    ELSE {"AttributeError"}

\* As AfterUpdate, with the exception of a failed update call swallowed.
AfterUpdateSwallowed(o, idx, n) == IF idx = n THEN "save" ELSE "writeback"

\* Where main() stands after the update call for position idx of n ended with outcome o.
AfterUpdate(o, idx, n) ==
    IF o # "returned" THEN "failed"
    ELSE IF idx = n THEN "save"
    ELSE "writeback"

\* One update call of the loop over batch_results.
UpdateProduct(outcomes) ==
    /\ pc = "writeback"
    /\ \E o \in outcomes :
         LET target == batchResults[wbIdx][1].id
             nxt == AfterUpdate(o, wbIdx, Len(batchResults))
             h == IF o = "returned"
                  THEN [hist EXCEPT !.cur.written = Append(@, target)]
                  ELSE hist
         IN /\ pc' = nxt
            /\ wbIdx' = IF nxt = "writeback" THEN wbIdx + 1 ELSE wbIdx
            /\ upstream' = IF o = "returned"
                           THEN [upstream EXCEPT ![target] = Append(@, batchResults[wbIdx][2])]
                           ELSE upstream
            /\ hist' = IF nxt = "failed" THEN Fail(h, "writeback", o, Ids(batch)) ELSE h
    /\ UNCHANGED <<now, catalog, blob, runs, trigger, minStart, maxDate, genVars, batch,
                   taskVars, batchResults>>
    /\ UNCHANGED callVars

\* -------------------------------------------------------------- checkpoint
\* As NewStatus, from the record whose annotation finished last.
NewStatusFromLastAnnotated(products, triggered) ==
    [latest_product_datetime_updated |-> products[Last(doneOrder)].created_date,
     latest_datetime_trigger |-> triggered]

\* As NewStatus, from the first record of the batch.
NewStatusFromFirst(products, triggered) ==
    [latest_product_datetime_updated |-> products[1].created_date,
     latest_datetime_trigger |-> triggered]

\* PipelineBlobStatus(latest_product_datetime_updated=batch_products[-1].created_date, ...)
NewStatus(products, triggered) ==
    [latest_product_datetime_updated |-> Last(products).created_date,
     latest_datetime_trigger |-> triggered]

\* How upload_blob can end: it replaces the blob and returns, or it raises and
\* leaves the blob as it is.
SaveOutcomes == {"returned", "TransportError"}

\* As AfterSave, with a failed upload tried again.
AfterSaveRetried(o) == IF o = "returned" THEN "resume" ELSE "save"

\* As AfterSave, with a failed upload passed over.
AfterSaveIgnored(o) == "resume"

\* Where main() stands after write_pipeline_status ended with outcome o.
AfterSave(o) == IF o = "returned" THEN "resume" ELSE "failed"

\* write_pipeline_status: the blob is overwritten, or the upload raises.
SaveCheckpoint ==
    /\ pc = "save"
    /\ \E o \in SaveOutcomes :
         LET status == NewStatus(batch, trigger)
             nxt == AfterSave(o)
             h == [hist EXCEPT
                     !.cur.saveTries = Append(@, [batchNo |-> Len(hist.cur.fetched),
                                                  outcome |-> o]),
                     !.saves = IF o = "returned"
                               THEN Append(@, [run |-> runs, status |-> status])
                               ELSE @]
         IN /\ blob' = IF o = "returned" THEN <<status>> ELSE blob
            /\ pc' = nxt
            /\ hist' = IF nxt = "failed" THEN Fail(h, "save", o, Ids(batch)) ELSE h
    /\ UNCHANGED <<now, catalog, upstream, runs, trigger, minStart, maxDate, genVars, batch,
                   taskVars, batchResults, wbIdx>>
    /\ UNCHANGED callVars

\* The for loop asks the generator for the next batch: it resumes after the yield.
ResumeGenerator ==
    /\ pc = "resume"
    /\ gen = "yielded"
    /\ LET g == GenAfterPage(remaining, Len(batch), pageInfo)
       IN /\ gen' = g.gen
          /\ cursor' = g.cursor
          /\ remaining' = g.remaining
          /\ IF g.gen = "ended"
             THEN pc' = "done"
                  /\ hist' = CloseRun([hist EXCEPT !.cur.stop = g.stop], "done", blob)
             ELSE pc' = "next" /\ hist' = hist
    /\ UNCHANGED <<now, catalog, upstream, blob, runs, trigger, minStart, maxDate, pageInfo,
                   batch, taskVars, batchResults, wbIdx>>
    /\ UNCHANGED callVars

\* ------------------------------------------------------------ specifications
Enrich ==
    \/ \E i \in DOMAIN task : TaskAcquire(i)
    \/ \E i \in DOMAIN task : TaskReturn(i)
    \/ \E i \in DOMAIN task : TaskRaise(i)
    \/ GatherReturn
    \/ GatherRaise

WriteBack == UpdateProduct(UpdateOutcomes(batchResults[wbIdx][1]))

\* The program as it is.
Next ==
    \/ Tick
    \/ AddRecord
    \/ StartRun
    \/ BeginFetch
    \/ RunQuery
    \/ Enrich
    \/ WriteBack

Spec == Init /\ [][Next]_vars

\* The program with an update call that is able to return: every behaviour of Spec
\* is one of SpecUpdateReturns, which adds the behaviours in which the mutation is
\* sent and answered (or refused by the transport).
WriteBackSent ==
    UpdateProduct(UpdateOutcomes(batchResults[wbIdx][1]) \cup {"returned", "TransportError"})

NextUpdateReturns ==
    \/ Tick
    \/ AddRecord
    \/ StartRun
    \/ BeginFetch
    \/ RunQuery
    \/ Enrich
    \/ WriteBackSent
    \/ SaveCheckpoint
    \/ ResumeGenerator

SpecUpdateReturns == Init /\ [][NextUpdateReturns]_vars

\* The blobs a run can find: none, one that cannot be read, a status.
LoadBlobs ==
    {<<>>} \cup {<<u>> : u \in Unreadable}
    \cup {<<[latest_product_datetime_updated |-> Epoch, latest_datetime_trigger |-> Epoch]>>}

InitLoad ==
    /\ catalog \in {c \in InitCatalogs : Cardinality(Malformed(c)) <= MaxMalformed}
    /\ now = StartTime
    /\ upstream = [i \in 1..Len(catalog) |-> <<>>]
    /\ blob \in LoadBlobs
    /\ runs = 0
    /\ pc = "idle"
    /\ trigger = 0
    /\ minStart = 0
    /\ maxDate = 0
    /\ gen = "none"
    /\ cursor = NoCursor
    /\ remaining = 0
    /\ pageInfo = [hasNextPage |-> FALSE, endCursor |-> NoCursor]
    /\ batch = <<>>
    /\ task = <<>>
    /\ permits = Permits
    /\ taskResult = <<>>
    /\ doneOrder = <<>>
    /\ batchResults = <<>>
    /\ wbIdx = 0
    /\ limit = <<ItemLimit>>
    /\ source = <<>>
    /\ hist = [cur |-> NoHist, ended |-> <<>>, saves |-> <<>>, added |-> 0]

\* The program as it is, started on a store that holds any of the blobs of LoadBlobs.
NextLoad ==
    \/ Tick
    \/ AddRecord
    \/ StartRun
    \/ LoadFails
    \/ BeginFetch
    \/ RunQuery
    \/ Enrich
    \/ WriteBack

SpecLoad == InitLoad /\ [][NextLoad]_vars

\* The dispatcher alone, on a batch of 1..MaxBatch products.
InitEnrich ==
    /\ \E n \in 1..MaxBatch : catalog = [i \in 1..n |-> MakeEntry(Epoch, GoodShape)]
    /\ now = StartTime
    /\ upstream = [i \in 1..Len(catalog) |-> <<>>]
    /\ blob = <<>>
    /\ runs = 1
    /\ pc = "gather"
    /\ trigger = StartTime
    /\ minStart = Epoch
    /\ maxDate = StartTime
    /\ gen = "yielded"
    /\ cursor = NoCursor
    /\ remaining = ItemLimit
    /\ pageInfo = [hasNextPage |-> FALSE, endCursor |-> Len(catalog)]
    /\ batch = MapAll([i \in 1..Len(catalog) |-> Node(i)])
    /\ task = [i \in 1..Len(catalog) |-> "waiting"]
    /\ permits = Permits
    /\ taskResult = [i \in 1..Len(catalog) |-> <<>>]
    /\ doneOrder = <<>>
    /\ batchResults = <<>>
    /\ wbIdx = 0
    /\ limit = <<ItemLimit>>
    /\ source = <<>>
    /\ hist = [cur |-> [NoHist EXCEPT !.window = <<Epoch, StartTime>>,
                                      !.fetched = <<Ids(batch)>>],
               ended |-> <<>>, saves |-> <<>>, added |-> 0]

SpecEnrich == InitEnrich /\ [][Enrich]_vars

\* ------------------------------------------------- fetch_products on its own
\* limit=None
NoLimit == <<>>

\* max_date=None (no datetime of the model is before the epoch)
NoMaxDate == 0 - 1

\* max_date.isoformat() raises AttributeError: None has no isoformat
IsoFormatRaises(date) == date = NoMaxDate

\* The limits fetch_products is called with: none, negative, zero, positive.
Limits == {NoLimit} \cup {<<n>> : n \in (0 - 1)..MaxLimit}

\* limit is not None
Limited(lim) == lim # NoLimit

\* As CallReturnsAtOnce, for a negative limit only.
CallReturnsAtOnceBelowZero(lim) == Limited(lim) /\ lim[1] < 0

\* if limit is not None and limit <= 0: return
CallReturnsAtOnce(lim) == Limited(lim) /\ lim[1] <= 0

\* As BatchSizeFor, with the page size asked for whatever is left of the limit.
BatchSizeForPageSize(lim, rem) == PageSize

\* current_batch_size, with or without a limit
BatchSizeFor(lim, rem) == IF Limited(lim) THEN CurrentBatchSize(rem) ELSE PageSize

\* As AfterPageFor, with a page that mapped nothing asked for again.
AfterPageForStuckOnEmpty(lim, rem, nMapped, pinfo) ==
    IF nMapped = 0
    THEN [gen |-> "request", cursor |-> cursor, remaining |-> rem, stop |-> "none"]
    ELSE IF Limited(lim) THEN GenAfterPage(rem, nMapped, pinfo)
    ELSE AfterLimitCheck(rem, pinfo)

\* As AfterPageFor, with a missing cursor sent again as no cursor.
AfterPageForCursorIgnored(lim, rem, nMapped, pinfo) ==
    LET g == IF Limited(lim) THEN GenAfterPage(rem, nMapped, pinfo)
             ELSE AfterLimitCheck(rem, pinfo)
    IN IF g.stop = "nocursor" THEN [g EXCEPT !.gen = "request", !.stop = "none"] ELSE g

\* fetch_products after a page, with or without a limit
AfterPageFor(lim, rem, nMapped, pinfo) ==
    IF Limited(lim) THEN GenAfterPage(rem, nMapped, pinfo) ELSE AfterLimitCheck(rem, pinfo)

\* A page of a source: how many nodes it has to give, and its pageInfo.
PageShapes == [size : 0..PageSize, hasNextPage : BOOLEAN, endCursor : {NoCursor} \cup 1..MaxPages]

\* The finite page chains: every page but the last says there is more and names
\* itself as cursor; the last says there is no more, or gives no cursor, or both.
PageChains ==
    UNION {{c \in [1..n -> PageShapes] :
               /\ \A j \in 1..(n - 1) : c[j].hasNextPage /\ c[j].endCursor = j
               /\ c[n].endCursor \in {NoCursor, n}
               /\ ~(c[n].hasNextPage /\ c[n].endCursor # NoCursor)}
           : n \in 1..MaxPages}

RECURSIVE PageOffset(_, _)
\* How many nodes the pages before page j hold.
PageOffset(src, j) == IF j <= 1 THEN 0 ELSE src[j - 1].size + PageOffset(src, j - 1)

\* The goldenProducts payload of a page chain: the page after the cursor, cut to
\* the number of nodes asked for.
SourcePayload(src, after, first) ==
    LET j == after + 1
        n == Min(first, src[j].size)
    IN [nodes |-> [i \in 1..n |-> Node(PageOffset(src, j) + i)],
        pageInfo |-> [hasNextPage |-> src[j].hasNextPage, endCursor |-> src[j].endCursor]]

\* fetch_products(min_date, max_date, limit) has been called on a page chain; the
\* consumer is about to ask for the first batch.
InitPaginate ==
    /\ source \in PageChains
    /\ limit \in Limits
    /\ catalog \in {c \in [1..PageOffset(source, Len(source) + 1) -> {MakeEntry(Epoch, sh) : sh \in Shapes}] :
                       Cardinality(Malformed(c)) <= MaxMalformed}
    /\ now = StartTime
    /\ upstream = [i \in 1..Len(catalog) |-> <<>>]
    /\ blob = <<>>
    /\ runs = 1
    /\ pc = "paginate"
    /\ trigger = StartTime
    /\ minStart = Epoch
    /\ maxDate = StartTime
    /\ gen = "created"
    /\ cursor = NoCursor
    /\ remaining = 0
    /\ pageInfo = [hasNextPage |-> FALSE, endCursor |-> NoCursor]
    /\ batch = <<>>
    /\ task = <<>>
    /\ permits = Permits
    /\ taskResult = <<>>
    /\ doneOrder = <<>>
    /\ batchResults = <<>>
    /\ wbIdx = 0
    /\ hist = [cur |-> [NoHist EXCEPT !.window = <<Epoch, StartTime>>],
               ended |-> <<>>, saves |-> <<>>, added |-> 0]

\* The first next(): the limit check, cursor and remaining.
PgStart ==
    /\ pc = "paginate"
    /\ gen = "created"
    /\ IF CallReturnsAtOnce(limit)
       THEN /\ gen' = "ended"
            /\ hist' = [hist EXCEPT !.cur.stop = "limit"]
            /\ UNCHANGED <<cursor, remaining>>
       ELSE /\ gen' = "request"
            /\ cursor' = NoCursor
            /\ remaining' = IF Limited(limit) THEN limit[1] ELSE remaining
            /\ hist' = hist
    /\ UNCHANGED <<now, catalog, upstream, blob, runs, pc, trigger, minStart, maxDate,
                   pageInfo, batch, taskVars, batchResults, wbIdx, callVars>>

\* One round of the while loop: the request, the mapping, the yield or, with nothing
\* mapped, the bookkeeping after it.
PgRequest ==
    /\ pc = "paginate"
    /\ gen = "request"
    /\ ~IsoFormatRaises(maxDate)
    /\ cursor + 1 \in DOMAIN source
    /\ LET first == BatchSizeFor(limit, remaining)
           payload == SourcePayload(source, cursor, first)
           nodes == payload.nodes
           h == [hist EXCEPT !.cur.firstSizes = Append(@, first)]
       IN \/ \* the request raises
             /\ gen' = "raised"
             /\ hist' = [h EXCEPT !.cur.error = "TransportError"]
             /\ UNCHANGED <<cursor, remaining, pageInfo, batch>>
          \/ \* _map_product raises out of the generator
             /\ \E i \in 1..Len(nodes) : MapRaises(nodes[i])
             /\ gen' = "raised"
             /\ hist' = [h EXCEPT !.cur.error = "ValueError"]
             /\ UNCHANGED <<cursor, remaining, pageInfo, batch>>
          \/ \* a batch is yielded
             /\ \A i \in 1..Len(nodes) : ~MapRaises(nodes[i])
             /\ Yields(MapAll(nodes))
             /\ batch' = MapAll(nodes)
             /\ pageInfo' = payload.pageInfo
             /\ gen' = "yielded"
             /\ hist' = [h EXCEPT !.cur.fetched = Append(@, Ids(MapAll(nodes)))]
             /\ UNCHANGED <<cursor, remaining>>
          \/ \* nothing mapped: no yield
             /\ nodes = <<>>
             /\ ~Yields(MapAll(nodes))
             /\ LET g == AfterPageFor(limit, remaining, 0, payload.pageInfo)
                IN /\ gen' = g.gen
                   /\ cursor' = g.cursor
                   /\ remaining' = g.remaining
                   /\ pageInfo' = payload.pageInfo
                   /\ hist' = [h EXCEPT !.cur.stop = g.stop]
             /\ UNCHANGED batch
    /\ UNCHANGED <<now, catalog, upstream, blob, runs, pc, trigger, minStart, maxDate,
                   taskVars, batchResults, wbIdx, callVars>>

\* The consumer asks for the next batch: the generator goes on after its yield.
PgResume ==
    /\ pc = "paginate"
    /\ gen = "yielded"
    /\ LET g == AfterPageFor(limit, remaining, Len(batch), pageInfo)
       IN /\ gen' = g.gen
          /\ cursor' = g.cursor
          /\ remaining' = g.remaining
          /\ hist' = [hist EXCEPT !.cur.stop = g.stop]
    /\ UNCHANGED <<now, catalog, upstream, blob, runs, pc, trigger, minStart, maxDate,
                   pageInfo, batch, taskVars, batchResults, wbIdx, callVars>>

\* One round of the while loop for max_date=None: the arguments of _run_query are
\* evaluated, max_date.isoformat() raises and no request is sent.
PgArgumentsRaise ==
    /\ pc = "paginate"
    /\ gen = "request"
    /\ IsoFormatRaises(maxDate)
    /\ gen' = "raised"
    /\ hist' = [hist EXCEPT !.cur.error = "AttributeError"]
    /\ UNCHANGED <<now, catalog, upstream, blob, runs, pc, trigger, minStart, maxDate,
                   cursor, remaining, pageInfo, batch, taskVars, batchResults, wbIdx,
                   callVars>>

NextPaginate ==
    \/ PgStart
    \/ PgRequest
    \/ PgResume

\* fetch_products alone, on a finite page chain, with a consumer that takes batches.
SpecPaginate == InitPaginate /\ [][NextPaginate]_vars

\* SpecPaginate with a consumer that keeps asking for the next batch.
SpecPaginateFair == SpecPaginate /\ WF_vars(NextPaginate)

\* fetch_products(min_date, max_date, limit) has been called on a page chain, with a
\* max_date or without one.
InitPaginateOpen ==
    /\ source \in PageChains
    /\ limit \in Limits
    /\ catalog \in {c \in [1..PageOffset(source, Len(source) + 1) -> {MakeEntry(Epoch, sh) : sh \in Shapes}] :
                       Cardinality(Malformed(c)) <= MaxMalformed}
    /\ now = StartTime
    /\ upstream = [i \in 1..Len(catalog) |-> <<>>]
    /\ blob = <<>>
    /\ runs = 1
    /\ pc = "paginate"
    /\ trigger = StartTime
    /\ minStart = Epoch
    /\ maxDate \in {NoMaxDate, StartTime}
    /\ gen = "created"
    /\ cursor = NoCursor
    /\ remaining = 0
    /\ pageInfo = [hasNextPage |-> FALSE, endCursor |-> NoCursor]
    /\ batch = <<>>
    /\ task = <<>>
    /\ permits = Permits
    /\ taskResult = <<>>
    /\ doneOrder = <<>>
    /\ batchResults = <<>>
    /\ wbIdx = 0
    /\ hist = [cur |-> [NoHist EXCEPT !.window = <<Epoch, maxDate>>],
               ended |-> <<>>, saves |-> <<>>, added |-> 0]

NextPaginateOpen ==
    \/ PgStart
    \/ PgRequest
    \/ PgArgumentsRaise
    \/ PgResume

\* fetch_products alone, called with and without max_date.
SpecPaginateOpen == InitPaginateOpen /\ [][NextPaginateOpen]_vars

\* ------------------------- update_product_with_complementary_queries alone
\* Largest number of option values a golden product holds in SpecUpdate.
MaxOptions == 2
\* Largest number of queries one annotation holds in SpecUpdate.
MaxQueries == 2
\* How often the update is called for the same (product, queries) pair in SpecUpdate.
MaxCalls == 2

\* self.field_id: the id of the option type "Bought together queries"
FieldId == "queries-type"
\* the id of another option type
OtherTypeId == "other-type"

\* Python's truth value of an optional string
Truthy(value) == value # None /\ value # <<>>

\* "+++".join(complementary_queries)
RECURSIVE Join(_)
Join(queries) ==
    IF queries = <<>> THEN <<>>
    ELSE IF Len(queries) = 1 THEN queries[1]
    ELSE queries[1] \o <<"+", "+", "+">> \o Join(Tail(queries))

\* (option.get("optionValue") or {}).get("id"); the optionValue of a node is <<>>
\* (null) or <<[id |-> ...]>>
OptionValueId(option) ==
    IF option.optionValue = <<>> THEN None ELSE option.optionValue[1].id

\* The body of the loop over product.option_values: what one option adds to
\* option_values_array.  An option with neither an id nor a text adds nothing (the
\* ValueError of the else branch is built, not raised).
OptionEntry(option) ==
    IF Truthy(OptionValueId(option))
    THEN <<[optionValueId |-> OptionValueId(option)]>>
    ELSE IF Truthy(option.textValue)
    THEN <<[optionTypeId |-> option.optionType.id, textValue |-> option.textValue]>>
    ELSE <<>>

RECURSIVE OptionEntries(_)
OptionEntries(options) ==
    IF options = <<>> THEN <<>>
    ELSE OptionEntry(Head(options)) \o OptionEntries(Tail(options))

\* option_values_array: the new queries first, then the product's option values
OptionValuesArray(product, queries) ==
    <<[optionTypeId |-> FieldId, textValue |-> Join(queries)]>>
    \o OptionEntries(product.option_values)

\* attributes
Attributes(product, queries) ==
    [title |-> product.title,
     description |-> product.description,
     brandId |-> product.brand_id,
     taxonId |-> product.taxon_id,
     optionValues |-> OptionValuesArray(product, queries)]

\* As UpdateVariables, with the product addressed by the mutation id.
UpdateVariablesKeyedByMutation(product, queries, mutationId) ==
    [clientMutationId |-> mutationId,
     goldenProductId |-> mutationId,
     attributes |-> Attributes(product, queries)]

\* variables["input"]; uuid4().hex is mutationId, new for every call
UpdateVariables(product, queries, mutationId) ==
    [clientMutationId |-> mutationId,
     goldenProductId |-> product.id,
     attributes |-> Attributes(product, queries)]

\* The option values a golden product can hold: a value picked from a list (by id), a
\* free text, the text of the queries option type that an earlier update stored, and
\* a value with neither an id nor a text.
PickedOption ==
    [optionType |-> [id |-> OtherTypeId], textValue |-> None, optionValue |-> <<[id |-> <<"r">>]>>]
TextOption ==
    [optionType |-> [id |-> OtherTypeId], textValue |-> <<"x">>, optionValue |-> <<>>]
EarlierQueriesOption ==
    [optionType |-> [id |-> FieldId], textValue |-> <<"o">>, optionValue |-> <<>>]
EmptyOption ==
    [optionType |-> [id |-> OtherTypeId], textValue |-> None, optionValue |-> <<>>]
OptionShapes == {PickedOption, TextOption, EarlierQueriesOption, EmptyOption}

\* AlsoBuyQueries.queries: at least one query
QueryLists == UNION {[1..n -> {<<"a">>, <<"b">>}] : n \in 1..MaxQueries}

\* The update is about to be called for one (product, queries) pair.  The product is
\* the one _map_product returns for the node, or an object that carries every keyword
\* argument _map_product passes.
InitUpdate ==
    /\ \E options \in UNION {[1..n -> OptionShapes] : n \in 0..MaxOptions} :
         catalog = <<[MakeEntry(Epoch, GoodShape) EXCEPT !.optionValues = options]>>
    /\ now = StartTime
    /\ upstream = <<<<>>>>
    /\ blob = <<>>
    /\ runs = 1
    /\ pc = "update"
    /\ trigger = StartTime
    /\ minStart = Epoch
    /\ maxDate = StartTime
    /\ gen = "yielded"
    /\ cursor = NoCursor
    /\ remaining = ItemLimit
    /\ pageInfo = [hasNextPage |-> FALSE, endCursor |-> 1]
    /\ batch \in {<<MapProduct(Node(1))>>, <<MapKwargs(Node(1))>>}
    /\ task = <<"done">>
    /\ permits = Permits
    /\ \E queries \in QueryLists : taskResult = <<<<batch[1], queries>>>>
    /\ doneOrder = <<1>>
    /\ batchResults = taskResult
    /\ wbIdx = 1
    /\ limit = <<ItemLimit>>
    /\ source = <<>>
    /\ hist = [cur |-> [NoHist EXCEPT !.window = <<Epoch, StartTime>>,
                                      !.fetched = <<Ids(batch)>>],
               ended |-> <<>>, saves |-> <<>>, added |-> 0]

\* How many times the update has been called for the pair.
UpdateCalls == Len(hist.cur.updateTries)

\* update_product_with_complementary_queries(product, queries) is called: it raises
\* on the product, or the mutation is sent and replaces the product's attributes, or
\* the transport refuses it.
UpdateCall ==
    /\ pc = "update"
    /\ UpdateCalls < MaxCalls
    /\ LET product == batchResults[wbIdx][1]
           queries == batchResults[wbIdx][2]
       IN \E o \in UpdateOutcomes(product) :
            /\ upstream' = IF o = "returned"
                           THEN [upstream EXCEPT ![product.id] =
                                   Append(@, UpdateVariables(product, queries, UpdateCalls + 1))]
                           ELSE upstream
            /\ hist' = [hist EXCEPT
                          !.cur.updateTries = Append(@, o),
                          !.cur.written = IF o = "returned" THEN Append(@, product.id) ELSE @]
    /\ UNCHANGED <<now, catalog, blob, runs, pc, trigger, minStart, maxDate, genVars, batch,
                   taskVars, batchResults, wbIdx>>
    /\ UNCHANGED callVars

\* The update alone, called MaxCalls times for the same pair.
SpecUpdate == InitUpdate /\ [][UpdateCall]_vars

\* ------------------------------------------------------ _map_product alone
\* Longest tree name drawn letter by letter in SpecCategories.
MaxTreeLen == 4
\* Largest number of parts of a tree name built from parts in SpecCategories.
MaxParts == 5

\* "sep".join(parts)
RECURSIVE JoinWith(_, _)
JoinWith(parts, sep) ==
    IF parts = <<>> THEN <<>>
    ELSE IF Len(parts) = 1 THEN parts[1]
    ELSE parts[1] \o sep \o JoinWith(Tail(parts), sep)

\* The taxon tree names of SpecCategories: the empty one, every string of up to
\* MaxTreeLen characters over a letter, the blank and the two delimiter characters,
\* and 1..MaxParts parts joined by one of the separators.
TreeNames ==
    UNION {[1..n -> {"A", " ", ">", "/"}] : n \in 0..MaxTreeLen}
    \cup {JoinWith(parts, Separators[k]) :
            parts \in UNION {[1..n -> {<<"A">>, <<"B">>, <<"C">>, <<" ">>}] : n \in 1..MaxParts},
            k \in DOMAIN Separators}

\* _map_product is about to be called on a node with a title and a taxon tree name.
InitCategories ==
    /\ \E treeName \in TreeNames :
         catalog = <<[MakeEntry(Epoch, GoodShape) EXCEPT !.treeName = treeName]>>
    /\ now = StartTime
    /\ upstream = <<<<>>>>
    /\ blob = <<>>
    /\ runs = 1
    /\ pc = "map"
    /\ trigger = StartTime
    /\ minStart = Epoch
    /\ maxDate = StartTime
    /\ gen = "request"
    /\ cursor = NoCursor
    /\ remaining = ItemLimit
    /\ pageInfo = [hasNextPage |-> FALSE, endCursor |-> NoCursor]
    /\ batch = <<>>
    /\ task = <<>>
    /\ permits = Permits
    /\ taskResult = <<>>
    /\ doneOrder = <<>>
    /\ batchResults = <<>>
    /\ wbIdx = 0
    /\ limit = <<ItemLimit>>
    /\ source = <<>>
    /\ hist = [cur |-> [NoHist EXCEPT !.window = <<Epoch, StartTime>>],
               ended |-> <<>>, saves |-> <<>>, added |-> 0]

\* _map_product(node): it raises ValueError for a node without category information,
\* or returns the product with the four category levels.
MapCall ==
    /\ pc = "map"
    /\ IF MapRaises(Node(1))
       THEN /\ pc' = "failed"
            /\ hist' = Fail(hist, "fetch", "ValueError", <<1>>)
            /\ UNCHANGED batch
       ELSE /\ pc' = "mapped"
            /\ batch' = <<MapProduct(Node(1))>>
            /\ hist' = [hist EXCEPT !.cur.fetched = <<<<1>>>>]
    /\ UNCHANGED <<now, catalog, upstream, blob, runs, trigger, minStart, maxDate, genVars,
                   taskVars, batchResults, wbIdx>>
    /\ UNCHANGED callVars

\* _map_product alone, on the tree names of TreeNames.
SpecCategories == InitCategories /\ [][MapCall]_vars

\* ==================================================================== claims
Key(id) == catalog[id].createdAt
Watermark(b) == b[1].latest_product_datetime_updated

\* C1: the checkpoint blob changes only in a step that stores the status made from
\* the current batch, and only when an update call has returned for every record of
\* that batch in this run.
C1_SaveOnlyAfterWholeBatchWritten ==
    [][blob' # blob =>
          /\ batch # <<>>
          /\ blob' = <<[latest_product_datetime_updated |-> Key(Last(batch).id),
                        latest_datetime_trigger |-> trigger]>>
          /\ \A i \in DOMAIN batch :
                /\ batch[i].id \in Range(hist.cur.written)
                /\ upstream[batch[i].id] # <<>>]_vars

\* C1 witness: a checkpoint has just been saved for a batch of two records.
C1_Witness ==
    /\ pc = "resume"
    /\ Len(batch) = 2
    /\ blob # <<>>
    /\ Watermark(blob) = Key(batch[2].id)

RECURSIVE Flatten(_)
Flatten(ss) == IF ss = <<>> THEN <<>> ELSE Head(ss) \o Flatten(Tail(ss))

Ended == hist.ended
FailedInWriteback(r) == r.outcome = "failed" /\ r.failedIn = "writeback"

C4_WatermarkNonDecreasing ==
    \A i, j \in DOMAIN hist.saves :
        i < j => hist.saves[i].status.latest_product_datetime_updated
                    <= hist.saves[j].status.latest_product_datetime_updated

\* C4 witness: two saves of different runs, the later with the larger watermark.
C4_Witness ==
    \E i, j \in DOMAIN hist.saves :
        /\ i < j
        /\ hist.saves[i].run < hist.saves[j].run
        /\ hist.saves[i].status.latest_product_datetime_updated
              < hist.saves[j].status.latest_product_datetime_updated

\* Run r ended normally having fetched every record that was upstream when it ended
\* and was created at or after its start bound.
AllAvailableProcessed(r) ==
    /\ r.outcome = "done"
    /\ \A i \in 1..r.catalogLen :
          Key(i) >= r.window[1] => i \in Range(Flatten(r.fetched)) /\ i \in Range(r.written)

\* C5: when a run completed with all available records processed and the catalog has
\* not grown since, the run after it has fetched nothing, written nothing back and
\* left the checkpoint as it was.
C5_SecondRunProcessesNothing ==
    \A k \in DOMAIN Ended :
        (/\ k + 1 \in DOMAIN Ended
         /\ AllAvailableProcessed(Ended[k])
         /\ Len(catalog) = Ended[k].catalogLen) =>
            /\ Ended[k + 1].fetched = <<>>
            /\ Ended[k + 1].written = <<>>
            /\ Ended[k + 1].ckptAtEnd = Ended[k].ckptAtEnd
            /\ blob = Ended[k].ckptAtEnd

\* C5 witness: a run processed two batches and saved, nothing was added, and the
\* next run has ended without fetching a record.
C5_Witness ==
    /\ Len(Ended) = 2
    /\ AllAvailableProcessed(Ended[1])
    /\ Len(Ended[1].fetched) = 2
    /\ Len(catalog) = Ended[1].catalogLen
    /\ Ended[2].outcome = "done"
    /\ Ended[2].fetched = <<>>

\* C6: in a run that found a checkpoint with watermark T, the lower bound given to
\* fetch_products is T plus one second, and every record the run fetched or wrote
\* back was created after T.
C6_WindowStartsAfterWatermark ==
    (pc # "idle" /\ hist.cur.ckptAtStart # <<>>) =>
        LET T == Watermark(hist.cur.ckptAtStart)
        IN /\ minStart = T + OneSecond
           /\ hist.cur.window # <<>> => hist.cur.window[1] = T + OneSecond
           /\ \A id \in Range(Flatten(hist.cur.fetched)) : Key(id) > T
           /\ \A id \in Range(hist.cur.written) : Key(id) > T

\* C6 witness: a run that started from a stored checkpoint has fetched and written
\* back a record.
C6_Witness ==
    /\ hist.cur.ckptAtStart # <<>>
    /\ hist.cur.fetched # <<>>
    /\ hist.cur.written # <<>>

\* Run r was stopped by a collaborator: the transport of a request, the annotation
\* engine, a node that cannot be mapped.
StoppedFromOutside(r) == r.error \in {"TransportError", "AnnotationError", "ValueError"}

\* C7 as claimed: with the seven records t1..t7 upstream and page size 2, the first
\* run (item limit 5) fetches t1..t5 in three pages of 2, 2 and 1 and leaves the
\* watermark at t5; the second run writes back t6 and t7 and leaves the watermark at
\* t7; the third run processes nothing and leaves the watermark at t7.  A run that a
\* collaborator stopped is not the scenario's.
C7_SevenRecordScenario ==
    (catalog = Scenario7 /\ \A k \in DOMAIN Ended : ~StoppedFromOutside(Ended[k])) =>
        /\ Len(Ended) >= 1 =>
              /\ Ended[1].fetched = << <<1, 2>>, <<3, 4>>, <<5>> >>
              /\ Ended[1].firstSizes = <<2, 2, 1>>
              /\ Ended[1].ckptAtEnd # <<>>
              /\ Watermark(Ended[1].ckptAtEnd) = Key(5)
        /\ Len(Ended) >= 2 =>
              /\ Ended[2].written = <<6, 7>>
              /\ Watermark(Ended[2].ckptAtEnd) = Key(7)
        /\ Len(Ended) >= 3 =>
              /\ Ended[3].fetched = <<>>
              /\ Ended[3].written = <<>>
              /\ Watermark(Ended[3].ckptAtEnd) = Key(7)

\* C8: when gather has returned, batch_results has one entry per record of the
\* batch, and entry i is the i-th record of the batch paired with the queries made
\* for that record, in whatever order the tasks finished.
C8_ResultsInBatchOrder ==
    pc = "writeback" =>
        /\ Len(batchResults) = Len(batch)
        /\ \A i \in DOMAIN batch : batchResults[i] = <<batch[i], <<"q", batch[i].id>> >>

\* C8 witness: gather returned for three or more records whose tasks finished in an
\* order that is not the batch order.
C8_Witness ==
    /\ pc = "writeback"
    /\ Len(batch) >= 3
    /\ doneOrder[1] = Len(batch)
    /\ doneOrder[Len(batch)] = 1

\* C9: the number of annotation calls in flight never exceeds the permit count.
C9_InFlightAtMostPermits == Cardinality(Running) <= Permits

\* C9 witness: all permits are taken and a task is waiting for one.
C9_Witness == Cardinality(Running) = Permits /\ Waiting # {}

\* C10 as claimed: a failed annotation call is not raised out of the batch, so no
\* run ends in the enrichment step, and a run in which an annotation failed goes on
\* to write back the records whose annotation succeeded.
C10_AnnotationFailureStaysInBatch ==
    \A k \in DOMAIN Ended : Ended[k].failedIn # "enrich"

\* C11 as claimed: a node without category information or without a title is left
\* out on its own; the other nodes of its page are yielded and the pages after it
\* are requested, so no run ends on such a node.
C11_MalformedNodeOnlyExcluded ==
    \A k \in DOMAIN Ended :
        ~(Ended[k].outcome = "failed" /\ Ended[k].failedIn = "fetch"
            /\ Ended[k].error = "ValueError")

\* A step in which an update call ends without having written: the driver stands in
\* the update loop, the clock and the upstream attribute sets stay as they are.
UpdateFailsStep == pc = "writeback" /\ upstream' = upstream /\ now' = now

\* A step of a run that has ended Failed, other than the start of the next run.
AfterFailureStep == pc = "failed" /\ runs' = runs

\* C12: when an update call fails, the run ends Failed in that very step with the
\* blob as it was; from then on, until the next run starts, no update is sent for
\* another record, no checkpoint is saved and no page is requested.
C12_FailedUpdateEndsRun ==
    [][/\ UpdateFailsStep =>
            /\ pc' = "failed"
            /\ blob' = blob
            /\ Len(hist'.ended) = Len(hist.ended) + 1
            /\ Last(hist'.ended).outcome = "failed"
            /\ Last(hist'.ended).written = hist.cur.written
       /\ AfterFailureStep =>
            /\ pc' = "failed"
            /\ blob' = blob
            /\ \A i \in DOMAIN upstream : upstream'[i] = upstream[i]
            /\ hist'.cur = hist.cur
            /\ hist'.ended = hist.ended
            /\ hist'.saves = hist.saves
            /\ UNCHANGED <<genVars, wbIdx, batchResults>>]_vars

\* C12 witness: the update call for the first of two records failed; the second
\* record has no update and the run has ended.
C12_Witness ==
    /\ pc = "failed"
    /\ hist.cur.failedIn = "writeback"
    /\ Len(batchResults) = 2
    /\ wbIdx = 1
    /\ upstream[batchResults[2][1].id] = <<>>

\* The upload calls the current run has made, each with the number of its batch.
SaveTries == hist.cur.saveTries

\* A step in which an upload call raises.
SaveFailsStep ==
    /\ Len(hist'.cur.saveTries) = Len(hist.cur.saveTries) + 1
    /\ Last(hist'.cur.saveTries).outcome # "returned"

\* C13: the checkpoint of a batch is uploaded at most once; when the upload raises,
\* the run ends Failed in that very step with the blob holding the value it held
\* before, and until the next run starts nothing is requested, written or saved.
C13_FailedSaveEndsRun ==
    [][/\ \A i, j \in DOMAIN SaveTries' :
            SaveTries'[i].batchNo = SaveTries'[j].batchNo => i = j
       /\ SaveFailsStep =>
            /\ pc' = "failed"
            /\ blob' = blob
            /\ Len(hist'.ended) = Len(hist.ended) + 1
            /\ Last(hist'.ended).outcome = "failed"
            /\ Last(hist'.ended).failedIn = "save"
            /\ Last(hist'.ended).ckptAtEnd = blob
            /\ UNCHANGED <<genVars, upstream>>
       /\ (pc = "failed" /\ hist.cur.failedIn = "save" /\ runs' = runs) =>
            /\ pc' = "failed"
            /\ blob' = blob
            /\ hist'.cur = hist.cur
            /\ UNCHANGED genVars]_vars

\* C13 witness: the upload for the second batch of a run raised; the blob holds the
\* checkpoint of the first batch and the generator was not resumed.
C13_Witness ==
    /\ pc = "failed"
    /\ hist.cur.failedIn = "save"
    /\ Len(hist.cur.fetched) = 2
    /\ Len(SaveTries) = 2
    /\ gen = "yielded"
    /\ blob # <<>>
    /\ Watermark(blob) = Key(Last(hist.cur.fetched[1]))

\* C14: every save stores as watermark the creation time of the last record of the
\* batch as the generator yielded it, and the blob holds that status after the save,
\* whatever the order in which the annotations of the batch finished.
C14_WatermarkOfLastFetched ==
    [][Len(hist'.saves) = Len(hist.saves) + 1 =>
          LET yielded == Last(hist.cur.fetched)
              saved == Last(hist'.saves).status
          IN /\ saved.latest_product_datetime_updated = Key(Last(yielded))
             /\ saved.latest_datetime_trigger = trigger
             /\ blob' = <<saved>>]_vars

\* C14 witness: a checkpoint was saved for a batch of two records of different
\* creation times whose first record was annotated last.
C14_Witness ==
    /\ pc = "resume"
    /\ Len(batch) = 2
    /\ doneOrder = <<2, 1>>
    /\ Key(batch[1].id) < Key(batch[2].id)
    /\ blob # <<>>
    /\ Watermark(blob) = Key(batch[2].id)

\* The requests of the current run carry the upper bound taken when fetch_products
\* was called, and no record created at or after that instant has been fetched or
\* written back by the run.
UpperBoundFixed ==
    pc \notin {"idle", "fetch"} =>
        /\ maxDate = hist.cur.window[2]
        /\ \A i \in DOMAIN catalog :
              Key(i) >= maxDate =>
                  /\ i \notin Range(Flatten(hist.cur.fetched))
                  /\ i \notin Range(hist.cur.written)

\* A record created at or after the upper bound of run k and before the upper bound
\* of run k + 1 is not created before the lower bound of run k + 1.
DeferredToNextRun ==
    \A k \in DOMAIN Ended :
        k + 1 \in DOMAIN Ended =>
            \A i \in DOMAIN catalog :
                (Key(i) >= Ended[k].window[2] /\ Key(i) < Ended[k + 1].window[2])
                    => Key(i) >= Ended[k + 1].window[1]

RequestedPage == source[cursor + 1]

\* The generator has stopped: it returned, or an exception left it.
Stopped == gen \in {"ended", "raised"}

\* A round of the loop whose page holds no node.
EmptyPageStep == pc = "paginate" /\ gen = "request" /\ RequestedPage.size = 0

\* C16: on every finite page chain fetch_products stops; a page that maps no record
\* yields no batch, and after such a page the next page is requested exactly when
\* the page says there is more and gives a cursor, otherwise the generator returns.
C16_TerminatesOnFiniteChain ==
    /\ <>Stopped
    /\ [][EmptyPageStep =>
            /\ hist'.cur.fetched = hist.cur.fetched
            /\ batch' = batch
            /\ gen' # "yielded"
            /\ gen' # "raised" =>
                  /\ gen' = "request" <=>
                        (RequestedPage.hasNextPage /\ RequestedPage.endCursor # NoCursor)
                  /\ gen' = "request" => cursor' = RequestedPage.endCursor
                  /\ gen' # "request" => gen' = "ended"]_vars

\* C16 witness: called without a limit on a chain of three pages that hold no node,
\* the generator has asked for all three and returned without a batch.
C16_Witness ==
    /\ pc = "paginate"
    /\ gen = "ended"
    /\ limit = NoLimit
    /\ Len(source) = 3
    /\ \A j \in DOMAIN source : source[j].size = 0
    /\ Len(hist.cur.firstSizes) = 3
    /\ hist.cur.fetched = <<>>

\* The page the next request is answered with says there is more and gives no cursor.
InconsistentPage ==
    /\ pc = "paginate"
    /\ gen = "request"
    /\ RequestedPage.hasNextPage
    /\ RequestedPage.endCursor = NoCursor

\* C17: when a page says there is more but gives no cursor, and the request and the
\* mapping of its nodes do not raise, the generator yields the nodes of the page if
\* it holds any, and then returns: it sends no further request and raises nothing.
C17_MissingCursorEndsNormally ==
    [][/\ InconsistentPage =>
            /\ gen' # "request"
            /\ (gen' # "raised" /\ RequestedPage.size > 0) =>
                  /\ gen' = "yielded"
                  /\ Len(batch') = Min(BatchSizeFor(limit, remaining), RequestedPage.size)
                  /\ hist'.cur.fetched = Append(hist.cur.fetched, Ids(batch'))
            /\ (gen' # "raised" /\ RequestedPage.size = 0) => gen' = "ended"
       /\ (/\ pc = "paginate"
           /\ gen = "yielded"
           /\ pageInfo.hasNextPage
           /\ pageInfo.endCursor = NoCursor) =>
            /\ gen' = "ended"
            /\ hist'.cur.firstSizes = hist.cur.firstSizes
            /\ hist'.cur.fetched = hist.cur.fetched
            /\ hist'.cur.error = "none"]_vars

\* C17 witness: the generator has returned for lack of a cursor, with the limit not
\* used up, after yielding a batch for every page of a chain of two or more pages.
C17_Witness ==
    /\ pc = "paginate"
    /\ gen = "ended"
    /\ hist.cur.stop = "nocursor"
    /\ hist.cur.error = "none"
    /\ Len(source) >= 2
    /\ Len(hist.cur.fetched) = Len(source)
    /\ Len(hist.cur.firstSizes) = Len(source)

\* How many records the generator has yielded so far.
YieldedCount == Len(Flatten(hist.cur.fetched))

\* C18: called with a limit L > 0, fetch_products never has yielded more than L
\* records; it sends a request only while fewer than L records have been yielded,
\* and each request asks for min(page size, L minus the records yielded so far).
C18_LimitBoundsRequests ==
    [][(Limited(limit) /\ limit[1] > 0) =>
          /\ YieldedCount' <= limit[1]
          /\ Len(hist'.cur.firstSizes) > Len(hist.cur.firstSizes) =>
                /\ YieldedCount < limit[1]
                /\ Last(hist'.cur.firstSizes) = Min(PageSize, limit[1] - YieldedCount)]_vars

\* C18 witness: called with limit 5 and page size 2, the generator asked for 2, 2
\* and 1 records, yielded five and returned.
C18_Witness ==
    /\ pc = "paginate"
    /\ gen = "ended"
    /\ limit = <<ItemLimit>>
    /\ hist.cur.firstSizes = <<PageSize, PageSize, 1>>
    /\ YieldedCount = ItemLimit
    /\ hist.cur.stop = "limit"

\* C19: called with a limit that is zero or negative, fetch_products sends no
\* request and yields no batch: once started it returns at once.
C19_NoRequestForEmptyLimit ==
    (pc = "paginate" /\ Limited(limit) /\ limit[1] <= 0) =>
        /\ gen \in {"created", "ended"}
        /\ hist.cur.firstSizes = <<>>
        /\ hist.cur.fetched = <<>>
        /\ batch = <<>>

\* C19 witness: called with limit 0 on a chain that holds records, the generator
\* has returned.
C19_Witness ==
    /\ pc = "paginate"
    /\ limit = <<0>>
    /\ gen = "ended"
    /\ catalog # <<>>

\* C20: a run that found no checkpoint blob uses the epoch as lower bound of its
\* fetch window; a run that found one uses its watermark plus one second, whatever
\* the trigger time stored with it and whatever the clock.
C20_LowerBoundFromCheckpoint ==
    pc # "idle" =>
        LET found == hist.cur.ckptAtStart
            lower == IF found = <<>> THEN Epoch
                     ELSE found[1].latest_product_datetime_updated + OneSecond
        IN /\ minStart = lower
           /\ hist.cur.window # <<>> => hist.cur.window[1] = lower

\* C20 witness: the first run found no blob and fetched from the epoch; the current
\* run found a checkpoint whose trigger time differs from its watermark and has
\* called fetch_products.
C20_Witness ==
    /\ Len(Ended) >= 1
    /\ Ended[1].ckptAtStart = <<>>
    /\ Ended[1].window[1] = Epoch
    /\ hist.cur.ckptAtStart # <<>>
    /\ hist.cur.window # <<>>
    /\ hist.cur.ckptAtStart[1].latest_datetime_trigger # Watermark(hist.cur.ckptAtStart)
    /\ hist.cur.window[1] # Epoch

\* The mutations the upstream service received for the product of the pair, in order.
Received == upstream[batchResults[1][1].id]

FirstSeparator(treeName) ==
    Separators[CHOOSE k \in DOMAIN Separators :
                  /\ Contains(treeName, Separators[k])
                  /\ \A j \in 1..(k - 1) : ~Contains(treeName, Separators[j])]

\* The categories as the claim describes them: the parts between the occurrences of
\* the first separator that occurs (the whole name when none occurs), trimmed, the
\* empty ones dropped, at most four kept, padded with None.
DescribedCategories(treeName) ==
    LET parts == IF \E k \in DOMAIN Separators : Contains(treeName, Separators[k])
                 THEN StripNonEmpty(Split(treeName, FirstSeparator(treeName)))
                 ELSE StripNonEmpty(<<treeName>>)
    IN PadNone(SubSeq(parts, 1, Min(4, Len(parts))))

\* The category levels _map_product returned, None in all four when it raised for
\* a missing first level.
MappedCategories ==
    IF pc = "mapped"
    THEN <<batch[1].category_lvl_1, batch[1].category_lvl_2,
           batch[1].category_lvl_3, batch[1].category_lvl_4>>
    ELSE <<None, None, None, None>>

\* C22: category extraction gives [A,B,C,null] for "A > B > C", [A,B,null,null] for
\* "A/B", [A,null,null,null] for "A" and four nulls for "", and for every tree name
\* the parts between the occurrences of the first separator of " > ", " / ", "/", ">"
\* that occurs, trimmed, without the empty ones, cut to four and padded with null.
C22_CategoriesAsDescribed ==
    pc \in {"mapped", "failed"} =>
        LET treeName == catalog[1].treeName
        IN /\ MappedCategories = DescribedCategories(treeName)
           /\ treeName = <<"A", " ", ">", " ", "B", " ", ">", " ", "C">>
                => MappedCategories = <<<<"A">>, <<"B">>, <<"C">>, None>>
           /\ treeName = <<"A", "/", "B">>
                => MappedCategories = <<<<"A">>, <<"B">>, None, None>>
           /\ treeName = <<"A">> => MappedCategories = <<<<"A">>, None, None, None>>
           /\ treeName = <<>> => MappedCategories = <<None, None, None, None>>

\* C23 as claimed: main() leaves the await of gather only when every annotation call
\* of the batch has returned or raised: at the first update call every task is done,
\* and a run that ends in the enrichment step leaves no call waiting for a permit or
\* in flight.
C23_NoCallLeftWhenLeaving ==
    /\ pc \in {"writeback", "save", "resume"} => \A i \in DOMAIN task : task[i] = "done"
    /\ \A k \in DOMAIN Ended :
         Ended[k].failedIn = "enrich" => Ended[k].leftBehind = 0

\* A step of the current run in which fetch_products sends a request.
RequestSentStep ==
    /\ runs' = runs
    /\ Len(hist'.cur.firstSizes) = Len(hist.cur.firstSizes) + 1

\* Every batch the current run has fetched is written back record by record, in the
\* order of the fetch, and its checkpoint is saved.
BatchesFinished ==
    /\ hist.cur.written = Flatten(hist.cur.fetched)
    /\ Len(SaveTries) = Len(hist.cur.fetched)
    /\ \A k \in DOMAIN SaveTries :
         SaveTries[k].batchNo = k /\ SaveTries[k].outcome = "returned"

\* C24: the batches of a run are processed one at a time in source order: a request
\* is sent only when every batch fetched so far in the run is written back and
\* saved, and a record of a later batch is never older than, nor placed by the source
\* before, a record of an earlier batch or an earlier record of its own batch.
C24_OneBatchAtATimeInOrder ==
    /\ [][RequestSentStep => BatchesFinished]_vars
    /\ [](LET ids == Flatten(hist.cur.fetched)
          IN \A i, j \in DOMAIN ids :
               i < j => ids[i] < ids[j] /\ Key(ids[i]) <= Key(ids[j]))

\* C24 witness: the request for the third page is about to be sent after two batches
\* of two records were written back and saved; the second batch is younger.
C24_Witness ==
    /\ pc = "next"
    /\ gen = "request"
    /\ Len(hist.cur.fetched) = 2
    /\ Len(hist.cur.written) = 4
    /\ Len(SaveTries) = 2
    /\ Key(hist.cur.fetched[2][1]) > Key(hist.cur.fetched[1][2])

\* A step in which main() makes an update call.
UpdateCallStep == pc = "writeback" /\ (wbIdx' # wbIdx \/ pc' # pc)

\* C25: update calls are made one at a time, for the records of the batch in the
\* order of the fetch, while no annotation call is waiting or in flight, and a run
\* writes no record back twice: a step changes what upstream holds for at most one
\* product, by one mutation, and only in an update call; the call is for the record
\* that follows the ones written back so far in the order of the fetch.
C25_WritebacksOneByOneInOrder ==
    /\ [][/\ UpdateCallStep =>
               LET target == batchResults[wbIdx][1].id
               IN /\ \A i \in DOMAIN task : task[i] = "done"
                  /\ batchResults[wbIdx][1] = batch[wbIdx]
                  /\ hist.cur.written \o <<target>>
                       = SubSeq(Flatten(hist.cur.fetched), 1, Len(hist.cur.written) + 1)
                  /\ \A k \in DOMAIN hist.cur.written : hist.cur.written[k] # target
                  /\ \A t \in DOMAIN upstream : t # target => upstream'[t] = upstream[t]
                  /\ upstream'[target] \in {upstream[target],
                                            Append(upstream[target], batchResults[wbIdx][2])}
                  /\ hist'.cur.written \in {hist.cur.written,
                                            Append(hist.cur.written, target)}
          /\ ~UpdateCallStep =>
               /\ \A t \in DOMAIN upstream : upstream'[t] = upstream[t]
               /\ runs' = runs => hist'.cur.written = hist.cur.written]_vars
    /\ [](\A i, j \in DOMAIN hist.cur.written :
             hist.cur.written[i] = hist.cur.written[j] => i = j)

\* C25 witness: the second record of the second batch was written back after the
\* first one, although its annotation had finished first.
C25_Witness ==
    /\ pc = "save"
    /\ Len(hist.cur.fetched) = 2
    /\ hist.cur.written = Flatten(hist.cur.fetched)
    /\ Len(hist.cur.written) = 4
    /\ doneOrder = <<2, 1>>

\* An entry of an update's option values re-sends the option: by its option-value id,
\* or by its option type and text value.
Resent(option, entries) ==
    \E k \in DOMAIN entries :
        \/ entries[k] = [optionValueId |-> OptionValueId(option)]
        \/ entries[k] = [optionTypeId |-> option.optionType.id,
                         textValue |-> option.textValue]

RunStartStep == runs' = runs + 1

\* C27: read_json returns None only for a blob that does not exist, and only then
\* does the run fetch from the epoch; for a blob that holds no data, no JSON or no
\* status it raises, the run ends Failed in that step and requests, writes back and
\* saves nothing; for a status the run fetches from its watermark plus one second.
C27_UnreadableBlobFailsRun ==
    /\ [][RunStartStep =>
            /\ blob = <<>> =>
                 /\ ~ReadJson(blob).raised /\ ReadJson(blob).status = <<>>
                 /\ pc' = "fetch" /\ minStart' = Epoch
            /\ (blob # <<>> /\ blob[1] \in Unreadable) =>
                 /\ pc' = "failed"
                 /\ Len(hist'.ended) = Len(hist.ended) + 1
                 /\ Last(hist'.ended).outcome = "failed"
                 /\ Last(hist'.ended).failedIn = "load"
                 /\ Last(hist'.ended).ckptAtEnd = blob
                 /\ UNCHANGED <<blob, upstream>>
            /\ (blob # <<>> /\ blob[1] \notin Unreadable) =>
                 /\ ReadJson(blob).status # <<>>
                 /\ pc' = "fetch" /\ minStart' = Watermark(blob) + OneSecond]_vars
    /\ []((pc = "failed" /\ hist.cur.failedIn = "load") =>
            /\ hist.cur.window = <<>> /\ hist.cur.firstSizes = <<>>
            /\ hist.cur.fetched = <<>> /\ hist.cur.written = <<>>
            /\ hist.cur.saveTries = <<>> /\ gen = "none"
            /\ blob = hist.cur.ckptAtStart)

\* C27 witness: the store held a blob that is not JSON while the catalog held records;
\* two runs ended in the load step, nothing was requested or written back and the
\* blob is as it was.
C27_Witness ==
    /\ runs = 2
    /\ pc = "failed"
    /\ Len(Ended) = 2
    /\ \A k \in DOMAIN Ended : Ended[k].failedIn = "load" /\ Ended[k].fetched = <<>>
    /\ blob = <<NotJson>>
    /\ Len(catalog) >= 2
    /\ \A t \in DOMAIN upstream : upstream[t] = <<>>

C29_RecordCarriesWritebackContext ==
    /\ \A i \in DOMAIN batch :
         /\ {"brand_id", "taxon_id", "option_values"} \subseteq DOMAIN batch[i]
         /\ batch[i].brand_id = Node(batch[i].id).brand.id
         /\ batch[i].taxon_id = Node(batch[i].id).taxon.id
         /\ batch[i].option_values = Node(batch[i].id).optionValues.nodes
    /\ \A k \in DOMAIN Ended :
         ~(Ended[k].failedIn = "writeback" /\ Ended[k].error = "AttributeError")

\* The entries of an update's option values that are for the queries option type.
QueriesEntries(entries) ==
    {k \in DOMAIN entries :
        "optionTypeId" \in DOMAIN entries[k] /\ entries[k].optionTypeId = FieldId}

C31_BatchesNonEmptyWithinPageSize ==
    /\ gen = "yielded" =>
         /\ Len(batch) >= 1
         /\ Len(batch) <= PageSize
         /\ Len(batch) <= Last(hist.cur.firstSizes)
         /\ Ids(batch) = Last(hist.cur.fetched)
    /\ \A k \in DOMAIN hist.cur.fetched :
         Len(hist.cur.fetched[k]) >= 1 /\ Len(hist.cur.fetched[k]) <= PageSize

\* C31 witness: after a page that held nothing and a full batch, the generator
\* yielded a batch of one product, cut by the limit.
C31_Witness ==
    /\ gen = "yielded"
    /\ Len(batch) = 1
    /\ Len(hist.cur.fetched) = 2
    /\ Len(hist.cur.fetched[1]) = PageSize
    /\ Len(hist.cur.firstSizes) = 3
    /\ limit = <<3>>

\* C32 as claimed: fetch_products called without max_date does not raise for the lack
\* of it: when the limit lets it run, it sends its requests and yields the batches of
\* the source.
C32_NoMaxDateFetchesUnbounded ==
    maxDate = NoMaxDate =>
        /\ hist.cur.error # "AttributeError"
        /\ (gen \in {"raised", "ended"} /\ ~CallReturnsAtOnce(limit)) =>
              hist.cur.firstSizes # <<>>

\* C33: the semaphore of a run never leaks a permit: the permits that are free and
\* the annotation calls in flight always add up to the permits the semaphore was made
\* with, whether calls returned or raised, so that all of them are free whenever no
\* call is in flight: before a batch, between batches and when the run has ended.
C33_NoPermitLeaks ==
    /\ permits + Cardinality(Running) = Permits
    /\ Running = {} => permits = Permits
    /\ pc \in {"next", "writeback", "save", "resume", "done", "failed"} => permits = Permits

\* C33 witness: in the second batch of a run one annotation call raised while the
\* other was in flight; the run has ended and every permit is free.
C33_Witness ==
    /\ pc = "failed"
    /\ hist.cur.failedIn = "enrich"
    /\ hist.cur.leftBehind = 1
    /\ Len(hist.cur.fetched) = 2
    /\ Raised # {}
    /\ permits = Permits

====
